---------------------------- MODULE Spec2Model ----------------------------
(***************************************************************************)
(* A model of cpconfig/ds.py: the configuration entities (dataclasses),    *)
(* their __post_init__ validation, their cached derived facts              *)
(* (functools.cached_property) and the CpConfig index maps.                *)
(*                                                                         *)
(* Python values are represented as follows.                               *)
(*   Optional[T]   : <<>> for None, <<v>> for a value v                    *)
(*   List[str]     : a sequence of strings                                 *)
(*   Set[str]      : a set of strings                                      *)
(*   Dict[str, V]  : a function whose domain is the set of keys            *)
(*   an instance   : [cls, f, d]: class name, declared fields, and the     *)
(*                   instance __dict__ entries written by cached_property  *)
(*   a SQL text    : the sequence of its lexical items that matter to the  *)
(*                   analysis: column names, "SUM" (an aggregate call) and *)
(*                   "?" (an item that makes the text unparsable)          *)
(***************************************************************************)
EXTENDS Integers, Sequences, FiniteSets, TLC

VARIABLES
    obj,       \* the instance under test, or NoObj
    other,     \* a second Source instance (equality / hash comparisons)
    call,      \* the most recent operation and its arguments
    ret,       \* what that operation returned or raised
    ncompute,  \* per derived fact: how often its function body ran on obj
    nparse,    \* per derived fact: how many sqlglot.parse_one calls it made
    first,     \* per derived fact: value and counters at the first successful access
    naccess,   \* operations performed on obj since construction
    nget,      \* per derived fact: accesses of it since construction
    pc,        \* per thread: position inside cached_property.__get__
    tval,      \* per thread: the locally computed value
    tret       \* per thread: what the access returned or raised

vars ==
    <<obj, other, call, ret, ncompute, nparse, first, naccess, nget, pc, tval, tret>>

---------------------------------------------------------------------------
\* Bounds of the model.

\* operations performed on one instance after its construction
MaxAccesses == 2

\* length of the dimensions list of a CpConfig
MaxDims == 2

\* lexical items in one SQL text
MaxExprLen == 2

\* threads racing on one cached fact
NThreads == 2

---------------------------------------------------------------------------
\* Python values.

None == <<>>

Some(v) == <<v>>

\* bool(x) for an Optional[str]: None and "" are falsy
TruthyStr(o) == o # None /\ o[1] # ""

\* bool(x) for an Optional[List[str]]: None and [] are falsy
TruthyList(o) == o # None /\ Len(o[1]) > 0

\* bool(x) for an Optional[object] of a class without __bool__/__len__
TruthyObj(o) == o # None

EmptyDict == [k \in {} |-> None]

NoError == "None"

NoVal == <<>>

NoObj == [cls |-> "NoObj", f |-> EmptyDict, d |-> EmptyDict]

Attrs ==
    {"group_by_columns", "join_using_columns", "has_aggregate_func",
     "required_column_names", "source_map", "dimension_map", "breakdown_map",
     "dimensions_per_source_name_map"}

ZeroCount == [a \in Attrs |-> 0]

Ok(v) == [raised |-> NoError, val |-> v]

Raise(e) == [raised |-> e, val |-> NoVal]

---------------------------------------------------------------------------
\* Dictionaries and comprehensions.

\* d[k] = v
DictPut(d, k, v) == [x \in DOMAIN d \cup {k} |-> IF x = k THEN v ELSE d[x]]

\* set(xs)
ToSet(xs) == {xs[i] : i \in DOMAIN xs}

\* {x.name: x for x in xs}: a later entry replaces an earlier one of the same name
RECURSIVE NameMapUpTo(_, _)
NameMapUpTo(xs, n) ==
    IF n = 0 THEN EmptyDict
    ELSE DictPut(NameMapUpTo(xs, n - 1), xs[n].f.name, xs[n])

NameMap(xs) == NameMapUpTo(xs, Len(xs))

---------------------------------------------------------------------------
\* sqlglot, as ds.py uses it.

ParseError == "sqlglot.errors.ParseError"

\* sqlglot.parse_one(text): the syntax tree, or ParseError for a text that is
\* not an expression
parse_one(text) ==
    IF \E i \in DOMAIN text : text[i] = "?"
    THEN [raised |-> ParseError, tree |-> NoVal]
    ELSE [raised |-> NoError, tree |-> text]

IsColumn(t) == t \notin {"SUM", "?"}

\* [c.this.this for c in tree.find_all(expressions.Column)]
column_names(tree) == SelectSeq(tree, IsColumn)

\* tree.find(sqlglot.expressions.AggFunc) is not None
has_agg_func(tree) == \E i \in DOMAIN tree : tree[i] = "SUM"

---------------------------------------------------------------------------
\* The functions behind the cached properties. Each returns
\* [raised, val, parses]: the exception or the value, and the number of
\* parse_one calls made.

Pure(v) == [raised |-> NoError, val |-> v, parses |-> 0]

\* a faulty variant: the result is built from the configured key values
Source_group_by_columns_KeyValues(f) ==
    IF f.group_by # None THEN f.group_by[1]
    ELSE IF TruthyStr(f.cp_user_id) /\ TruthyStr(f.cp_date)
         THEN <<f.cp_user_id[1], f.cp_date[1]>>
         ELSE <<>>

\* Source.group_by_columns (ds.py 67-71)
Source_group_by_columns(f) ==
    IF f.group_by # None THEN f.group_by[1]
    ELSE IF TruthyStr(f.cp_user_id) /\ TruthyStr(f.cp_date)
         THEN <<"cp_user_id", "cp_date">>
         ELSE <<>>

\* Source.join_using_columns (ds.py 73-87)
Source_join_using_columns(f) ==
    IF TruthyList(f.join_using) THEN f.join_using[1]
    ELSE IF TruthyList(f.group_by) THEN f.group_by[1]
    ELSE (IF TruthyStr(f.cp_user_id) THEN <<"cp_user_id">> ELSE <<>>)
             \o (IF TruthyStr(f.cp_date) THEN <<"cp_date">> ELSE <<>>)

\* Metric.required_column_names (ds.py 125-137): the left operand of | is
\* evaluated first, so per_row_select is parsed before aggregate_select
Metric_required_column_names(f) ==
    LET p == parse_one(f.per_row_select)
        q == parse_one(f.aggregate_select)
    IN  IF p.raised # NoError
        THEN [raised |-> p.raised, val |-> NoVal, parses |-> 1]
        ELSE IF q.raised # NoError
             THEN [raised |-> q.raised, val |-> NoVal, parses |-> 2]
             ELSE [raised |-> NoError,
                   val |-> ToSet(column_names(p.tree)) \cup ToSet(column_names(q.tree)),
                   parses |-> 2]

\* Dimension.is_derived (ds.py 172-174)
Dimension_is_derived(f) == f.source = None

\* Dimension.has_aggregate_func (ds.py 176-178)
Dimension_has_aggregate_func(f) ==
    LET p == parse_one(f.select)
    IN  IF p.raised # NoError
        THEN [raised |-> p.raised, val |-> NoVal, parses |-> 1]
        ELSE [raised |-> NoError, val |-> has_agg_func(p.tree), parses |-> 1]

\* a faulty variant: a text that does not parse has no columns
Dimension_required_column_names_Swallow(f) ==
    LET p == parse_one(f.select)
    IN  IF p.raised # NoError
        THEN [raised |-> NoError, val |-> <<>>, parses |-> 1]
        ELSE [raised |-> NoError, val |-> column_names(p.tree), parses |-> 1]

\* Dimension.required_column_names (ds.py 180-185)
Dimension_required_column_names(f) ==
    LET p == parse_one(f.select)
    IN  IF p.raised # NoError
        THEN [raised |-> p.raised, val |-> NoVal, parses |-> 1]
        ELSE [raised |-> NoError, val |-> column_names(p.tree), parses |-> 1]

\* CpConfig.source_map (ds.py 222-224)
CpConfig_source_map(f) == NameMap(f.sources)

\* CpConfig.dimension_map (ds.py 226-228)
CpConfig_dimension_map(f) == NameMap(f.dimensions)

\* CpConfig.breakdown_map (ds.py 230-232)
CpConfig_breakdown_map(f) == NameMap(f.breakdowns)

\* a faulty variant: the list of a source is started anew for every dimension
RECURSIVE accum_Reset(_, _)
accum_Reset(dims, n) ==
    IF n = 0 THEN EmptyDict
    ELSE LET acc == accum_Reset(dims, n - 1)
             dim == dims[n]
         IN  IF ~TruthyStr(dim.f.source) THEN acc
             ELSE DictPut(acc, dim.f.source[1], <<dim>>)

CpConfig_dimensions_per_source_name_map_Reset(f) ==
    accum_Reset(f.dimensions, Len(f.dimensions))

\* the loop of dimensions_per_source_name_map after its first n iterations
RECURSIVE accum(_, _)
accum(dims, n) ==
    IF n = 0 THEN EmptyDict
    ELSE LET acc == accum(dims, n - 1)
             dim == dims[n]
         IN  IF ~TruthyStr(dim.f.source) THEN acc
             ELSE LET s == dim.f.source[1]
                      acc1 == IF s \notin DOMAIN acc THEN DictPut(acc, s, <<>>) ELSE acc
                  IN  DictPut(acc1, s, Append(acc1[s], dim))

\* CpConfig.dimensions_per_source_name_map (ds.py 234-243)
CpConfig_dimensions_per_source_name_map(f) ==
    accum(f.dimensions, Len(f.dimensions))

\* the names of the cached properties of a class
CachedAttrs(cls) ==
    CASE cls = "Source" -> {"group_by_columns", "join_using_columns"}
      [] cls = "Dimension" -> {"has_aggregate_func", "required_column_names"}
      [] cls = "Metric" -> {"required_column_names"}
      [] cls = "CpConfig" ->
            {"source_map", "dimension_map", "breakdown_map",
             "dimensions_per_source_name_map"}
      [] OTHER -> {}

\* the function a cached_property of class cls wraps under the name attr
func(cls, attr, f) ==
    CASE cls = "Source" /\ attr = "group_by_columns" -> Pure(Source_group_by_columns(f))
      [] cls = "Source" /\ attr = "join_using_columns" -> Pure(Source_join_using_columns(f))
      [] cls = "Dimension" /\ attr = "has_aggregate_func" -> Dimension_has_aggregate_func(f)
      [] cls = "Dimension" /\ attr = "required_column_names" -> Dimension_required_column_names(f)
      [] cls = "Metric" /\ attr = "required_column_names" -> Metric_required_column_names(f)
      [] cls = "CpConfig" /\ attr = "source_map" -> Pure(CpConfig_source_map(f))
      [] cls = "CpConfig" /\ attr = "dimension_map" -> Pure(CpConfig_dimension_map(f))
      [] cls = "CpConfig" /\ attr = "breakdown_map" -> Pure(CpConfig_breakdown_map(f))
      [] cls = "CpConfig" /\ attr = "dimensions_per_source_name_map" ->
            Pure(CpConfig_dimensions_per_source_name_map(f))

---------------------------------------------------------------------------
\* functools.cached_property.__get__: look the name up in the instance
\* __dict__; on a miss call the function and store what it returns under the
\* name. An exception of the function propagates and nothing is stored.

\* a faulty variant: the lookup never finds the entry (the behaviour of a plain property)
cache_lookup_Miss(d, attr) == [hit |-> FALSE, val |-> NoVal]

\* val = cache.get(self.attrname, _NOT_FOUND)
cache_lookup(d, attr) ==
    IF attr \in DOMAIN d
    THEN [hit |-> TRUE, val |-> d[attr]]
    ELSE [hit |-> FALSE, val |-> NoVal]

\* a faulty variant: the value is stored under the name of another property
cache_store_WrongName(d, attr, val) == DictPut(d, "func", val)

\* cache[self.attrname] = val
cache_store(d, attr, val) == DictPut(d, attr, val)

\* one whole access by a single thread: [raised, val, d, ran, parses]
cached_property_get(cls, attr, f, d) ==
    LET c == cache_lookup(d, attr)
    IN  IF c.hit
        THEN [raised |-> NoError, val |-> c.val, d |-> d, ran |-> 0, parses |-> 0]
        ELSE LET r == func(cls, attr, f)
             IN  IF r.raised # NoError
                 THEN [raised |-> r.raised, val |-> NoVal, d |-> d,
                       ran |-> 1, parses |-> r.parses]
                 ELSE [raised |-> NoError, val |-> r.val,
                       d |-> cache_store(d, attr, r.val),
                       ran |-> 1, parses |-> r.parses]

---------------------------------------------------------------------------
\* Construction: the dataclass-generated __init__ stores the fields and then
\* calls __post_init__ where the class defines one. A __post_init__ returns
\* [raised, d, gets]: the exception, the instance __dict__ it leaves, and the
\* cached-property accesses it made.

ModeError == "ValueError: A source must have exactly either 'table' or 'create_view' or 'sync_from' field"

JoinError == "ValueError: A source must have either cp_user_id, cp_date, or join_using"

FormatterError == "ValueError: Only CONTINUOUS columns can have value_formatter"

HumanizeError == "ValueError: BOOLEAN columns take a list of strings"

FrozenInstanceError == "dataclasses.FrozenInstanceError"

\* a faulty variant: sync_from is left out of the list of modes
Source_mode_NoSync(f) ==
    (IF TruthyStr(f.table) THEN <<f.table[1]>> ELSE <<>>)
        \o (IF TruthyStr(f.create_view) THEN <<f.create_view[1]>> ELSE <<>>)

\* list(filter(None, [self.table, self.create_view, self.sync_from]))
Source_mode(f) ==
    (IF TruthyStr(f.table) THEN <<f.table[1]>> ELSE <<>>)
        \o (IF TruthyStr(f.create_view) THEN <<f.create_view[1]>> ELSE <<>>)
        \o (IF TruthyObj(f.sync_from) THEN <<f.sync_from[1]>> ELSE <<>>)

\* a faulty variant: the joinability check is missing
Source_post_init_NoJoinCheck(f) ==
    IF Len(Source_mode(f)) # 1
    THEN [raised |-> ModeError, d |-> EmptyDict, gets |-> <<>>]
    ELSE [raised |-> NoError, d |-> EmptyDict, gets |-> <<>>]

\* Source.__post_init__ (ds.py 52-59): the mode check, then the joinability
\* check, which reads the cached property join_using_columns
Source_post_init(f) ==
    IF Len(Source_mode(f)) # 1
    THEN [raised |-> ModeError, d |-> EmptyDict, gets |-> <<>>]
    ELSE LET g == cached_property_get("Source", "join_using_columns", f, EmptyDict)
             gets == <<[attr |-> "join_using_columns", res |-> g]>>
         IN  IF Len(g.val) = 0
             THEN [raised |-> JoinError, d |-> g.d, gets |-> gets]
             ELSE [raised |-> NoError, d |-> g.d, gets |-> gets]

\* Segmentation.__post_init__ (ds.py 146-153). humanize is
\* Optional[Union[str, List[str]]]: None, Some(<<"str", s>>) or
\* Some(<<"list", s1, ..>>)
Segmentation_post_init(f) ==
    IF f.humanize # None
    THEN IF f.value_formatter # None /\ f.type # "CONTINUOUS"
         THEN [raised |-> FormatterError, d |-> EmptyDict, gets |-> <<>>]
         ELSE IF f.humanize[1][1] = "str" /\ f.type = "BOOLEAN"
              THEN [raised |-> HumanizeError, d |-> EmptyDict, gets |-> <<>>]
              ELSE [raised |-> NoError, d |-> EmptyDict, gets |-> <<>>]
    ELSE [raised |-> NoError, d |-> EmptyDict, gets |-> <<>>]

\* the classes without a __post_init__
post_init(cls, f) ==
    CASE cls = "Source" -> Source_post_init(f)
      [] cls = "Segmentation" -> Segmentation_post_init(f)
      [] OTHER -> [raised |-> NoError, d |-> EmptyDict, gets |-> <<>>]

\* cls(**args): the instance, or the exception of __post_init__
New(cls, args) ==
    LET r == post_init(cls, args)
    IN  [obj |-> IF r.raised = NoError
                 THEN [cls |-> cls, f |-> args, d |-> r.d]
                 ELSE NoObj,
         raised |-> r.raised,
         gets |-> r.gets]

\* the @dataclass decorators: frozen=True or not
Frozen(cls) ==
    CASE cls = "Profile" -> TRUE
      [] cls = "SyncFrom" -> TRUE
      [] cls = "Source" -> TRUE
      [] cls = "MetricDisplayConfig" -> TRUE
      [] cls = "Metric" -> TRUE
      [] cls = "Segmentation" -> TRUE
      [] cls = "Dimension" -> TRUE
      [] cls = "Breakdown" -> TRUE
      [] cls = "Report" -> FALSE
      [] cls = "CpConfig" -> TRUE

\* hash() of a str: some fixed integer per string within one process
StrHash(s) ==
    CASE s = "s1" -> 7919
      [] s = "s2" -> 104729
      [] s = "t" -> 1299709
      [] s = "t2" -> 15485863
      [] OTHER -> 0

\* hash() of an Optional[str]
OptHash(o) == IF o = None THEN 0 - 1 ELSE StrHash(o[1])

\* a faulty variant: the hash is taken from the table field
Source_hash_OfTable(o) == OptHash(o.f.table)

\* Source.__hash__ (ds.py 64-65)
Source_hash(o) == StrHash(o.f.name)

\* Source.__eq__, generated by @dataclass (eq defaults to True and the class
\* defines no __eq__): same class and equal tuples of all declared fields
Source_eq(a, b) == a.cls = b.cls /\ a.f = b.f

---------------------------------------------------------------------------
\* The constructor arguments the model draws from.

Tokens == {"a", "b", "SUM", "?"}

\* SQL texts of 1 .. MaxExprLen lexical items
Exprs == UNION {[1..n -> Tokens] : n \in 1..MaxExprLen}

SyncFrom1 ==
    [tap_name |-> "tap", tap_url |-> None, credential_key |-> "key", config |-> None]

SourceArgs ==
    [name : {"s1"},
     table : {None, Some(""), Some("t")},
     create_view : {None, Some(""), Some("v")},
     cp_user_id : {None, Some(""), Some("uid")},
     cp_date : {None, Some(""), Some("dt")},
     where : {None},
     where_incremental : {None},
     join_using : {None, Some(<<>>), Some(<<"j">>)},
     group_by : {None, Some(<<>>), Some(<<"a", "b">>)},
     sync_from : {None, Some(SyncFrom1)}]

\* two names and several settings of the other fields, all with a valid mode
EqArgs ==
    [name : {"s1", "s2"},
     table : {Some("t"), Some("t2")},
     create_view : {None},
     cp_user_id : {None, Some("uid")},
     cp_date : {None},
     where : {None},
     where_incremental : {None},
     join_using : {None, Some(<<"j">>)},
     group_by : {None},
     sync_from : {None}]

SegmentationArgs ==
    [type : {"CONTINUOUS", "CATEGORICAL", "BOOLEAN"},
     humanize : {None, Some(<<"str", "Yes">>), Some(<<"list", "Yes", "No">>)},
     value_formatter : {None, Some("DAYS"), Some("MINUTES")}]

ProfileArgs == [materialize_incremental_type : {"BIGQUERY", "REDSHIFT"}]

ReportArgs ==
    [name : {"r1"},
     period_length : {7, 30},
     period_offset : {0},
     title : {"weekly"},
     tags : {<<>>},
     exclude_metrics : {{}},
     grow_orphan_at_max_depth : {0},
     grow_segment_at_max_depth : {2}]

DimensionArgs ==
    [name : {"d1"},
     select : Exprs,
     source : {None, Some("s1")},
     default : {None},
     where : {None},
     segmentation : {None},
     parent : {None}]

Display1 ==
    [unit |-> "$", is_unit_prefix |-> FALSE, participant_singular |-> "participant",
     participant_plural |-> "participants", is_pct |-> FALSE]

MetricArgs ==
    [name : {"m1"},
     per_row_select : Exprs,
     aggregate_select : {<<"SUM", "a">>, <<"SUM", "b">>, <<"?">>},
     per_row_pandas : {"x"},
     aggregate_pandas : {"sum"},
     per_row_column_type : {"CONTINUOUS"},
     breakdown : {None},
     display : {Display1},
     root_predicate : {None},
     is_target : {TRUE},
     forced_dimensions : {<<>>}]

BreakdownArgs ==
    [name : {"b1", "b2"},
     dimensions : {{"d1"}},
     ways : {<<>>},
     exclude_ways : {{}}]

\* a constructed Dimension
Dim(name, source, select) ==
    New("Dimension",
        [name |-> name, select |-> select, source |-> source, default |-> None,
         where |-> None, segmentation |-> None, parent |-> None]).obj

\* a constructed Source reading a table
Src(name, table) ==
    New("Source",
        [name |-> name, table |-> Some(table), create_view |-> None,
         cp_user_id |-> Some("uid"), cp_date |-> Some("dt"), where |-> None,
         where_incremental |-> None, join_using |-> None, group_by |-> None,
         sync_from |-> None]).obj

\* the dimensions a CpConfig is built from: two on source s1, one on s2 that
\* shares a name and has an unparsable select, one derived, one whose source
\* is the empty string
ConfigDims ==
    {Dim("d1", Some("s1"), <<"a">>), Dim("d2", Some("s1"), <<"SUM", "b">>),
     Dim("d1", Some("s2"), <<"?">>), Dim("d3", None, <<"a">>),
     Dim("d4", Some(""), <<"b">>)}

DimLists == UNION {[1..n -> ConfigDims] : n \in 0..MaxDims}

Profile1 == New("Profile", [materialize_incremental_type |-> "BIGQUERY"]).obj

Breakdown1 ==
    New("Breakdown",
        [name |-> "b1", dimensions |-> {"d1"}, ways |-> <<>>, exclude_ways |-> {}]).obj

CpConfigArgs ==
    [profile : {Profile1},
     sources : {<<Src("s1", "t"), Src("s2", "t2")>>, <<Src("s1", "t"), Src("s1", "t2")>>},
     dimensions : DimLists,
     where : {None},
     metrics : {<<>>},
     breakdowns : {<<Breakdown1>>},
     reports : {<<>>}]

ArgsOf(cls) ==
    CASE cls = "Source" -> SourceArgs
      [] cls = "Segmentation" -> SegmentationArgs
      [] cls = "Profile" -> ProfileArgs
      [] cls = "Report" -> ReportArgs
      [] cls = "Dimension" -> DimensionArgs
      [] cls = "Metric" -> MetricArgs
      [] cls = "Breakdown" -> BreakdownArgs
      [] cls = "CpConfig" -> CpConfigArgs

\* the fields an assignment is attempted on, and the value assigned
SetAttrFields(cls) ==
    CASE cls = "Source" -> {"name"}
      [] cls = "Segmentation" -> {"type"}
      [] cls = "Profile" -> {"materialize_incremental_type"}
      [] cls = "Report" -> {"name", "period_length"}
      [] cls = "Dimension" -> {"select"}
      [] cls = "Metric" -> {"aggregate_select"}
      [] cls = "Breakdown" -> {"name"}
      [] cls = "CpConfig" -> {"where"}
      [] OTHER -> {}

SetAttrValue(field) ==
    CASE field = "name" -> "renamed"
      [] field = "type" -> "BOOLEAN"
      [] field = "materialize_incremental_type" -> "REDSHIFT"
      [] field = "period_length" -> 14
      [] field = "select" -> <<"b">>
      [] field = "aggregate_select" -> <<"b">>
      [] field = "where" -> Some("x > 0")

Threads == 1..NThreads

---------------------------------------------------------------------------
\* State machine: one instance is constructed and then read.

Call(op, cls, args, attr) == [op |-> op, cls |-> cls, args |-> args, attr |-> attr]

\* the counters a construction leaves: the accesses __post_init__ made
ComputedBy(gets) ==
    IF gets = <<>> THEN ZeroCount
    ELSE [ZeroCount EXCEPT ![gets[1].attr] = gets[1].res.ran]

ParsedBy(gets) ==
    IF gets = <<>> THEN ZeroCount
    ELSE [ZeroCount EXCEPT ![gets[1].attr] = gets[1].res.parses]

\* the first successful access of attr is remembered with its counters
Remember(fst, attr, res, nc, np) ==
    IF res.raised = NoError /\ attr \notin DOMAIN fst
    THEN DictPut(fst, attr, [val |-> res.val, ncompute |-> nc, nparse |-> np])
    ELSE fst

FirstBy(n) ==
    IF n.raised = NoError /\ n.gets # <<>>
    THEN Remember(EmptyDict, n.gets[1].attr, n.gets[1].res,
                  n.gets[1].res.ran, n.gets[1].res.parses)
    ELSE EmptyDict

IdleThreads ==
    /\ pc = [t \in Threads |-> "idle"]
    /\ tval = [t \in Threads |-> NoVal]
    /\ tret = [t \in Threads |-> Ok(NoVal)]

Init ==
    /\ obj = NoObj
    /\ other = NoObj
    /\ call = Call("init", "", NoVal, "")
    /\ ret = Ok(NoVal)
    /\ ncompute = ZeroCount
    /\ nparse = ZeroCount
    /\ first = EmptyDict
    /\ naccess = 0
    /\ nget = ZeroCount
    /\ IdleThreads

\* obj = cls(**args), once in a run
Construct(cls, args) ==
    LET n == New(cls, args)
    IN  /\ call.op = "init"
        /\ obj' = n.obj
        /\ call' = Call("construct", cls, args, "")
        /\ ret' = [raised |-> n.raised, val |-> NoVal]
        /\ ncompute' = ComputedBy(n.gets)
        /\ nparse' = ParsedBy(n.gets)
        /\ first' = FirstBy(n)
        /\ naccess' = 0
        /\ nget' = [a \in Attrs |-> Len(SelectSeq(n.gets, LAMBDA g : g.attr = a))]
        /\ UNCHANGED <<other, pc, tval, tret>>

\* obj.attr, attr a cached property of the class of obj
Get(attr) ==
    /\ obj # NoObj
    /\ attr \in CachedAttrs(obj.cls)
    /\ naccess < MaxAccesses
    /\ LET g == cached_property_get(obj.cls, attr, obj.f, obj.d)
       IN  /\ obj' = [obj EXCEPT !.d = g.d]
           /\ call' = Call("get", obj.cls, NoVal, attr)
           /\ ret' = [raised |-> g.raised, val |-> g.val]
           /\ ncompute' = [ncompute EXCEPT ![attr] = @ + g.ran]
           /\ nparse' = [nparse EXCEPT ![attr] = @ + g.parses]
           /\ first' = Remember(first, attr, g, ncompute[attr] + g.ran,
                                nparse[attr] + g.parses)
    /\ naccess' = naccess + 1
    /\ nget' = [nget EXCEPT ![attr] = @ + 1]
    /\ UNCHANGED <<other, pc, tval, tret>>

\* obj.field = value: the __setattr__ of a frozen dataclass raises, that of a
\* plain dataclass assigns
SetAttr(field) ==
    /\ obj # NoObj
    /\ field \in SetAttrFields(obj.cls)
    /\ naccess < MaxAccesses
    /\ IF Frozen(obj.cls)
       THEN /\ ret' = Raise(FrozenInstanceError)
            /\ obj' = obj
       ELSE /\ ret' = Ok(NoVal)
            /\ obj' = [obj EXCEPT !.f[field] = SetAttrValue(field)]
    /\ call' = Call("setattr", obj.cls, SetAttrValue(field), field)
    /\ naccess' = naccess + 1
    /\ UNCHANGED <<other, ncompute, nparse, first, nget, pc, tval, tret>>

Classes ==
    {"Source", "Segmentation", "Profile", "Report", "Dimension", "Metric",
     "Breakdown", "CpConfig"}

Fields ==
    {"name", "type", "materialize_incremental_type", "period_length", "select",
     "aggregate_select", "where"}

Next ==
    \/ \E cls \in Classes : \E args \in ArgsOf(cls) : Construct(cls, args)
    \/ \E attr \in Attrs : Get(attr)
    \/ \E field \in Fields : SetAttr(field)

Spec == Init /\ [][Next]_vars

---------------------------------------------------------------------------
\* Two Source instances side by side.

\* other = Source(**args)
ConstructOther(args) ==
    /\ other' = New("Source", args).obj
    /\ call' = Call("construct_other", "Source", args, "")
    /\ UNCHANGED <<obj, ret, ncompute, nparse, first, naccess, nget, pc, tval, tret>>

NextEq ==
    \/ \E args \in EqArgs : Construct("Source", args)
    \/ \E args \in EqArgs : ConstructOther(args)

SpecEq == Init /\ [][NextEq]_vars

---------------------------------------------------------------------------
\* Several threads read the same cached property of one instance. The steps
\* of cached_property.__get__ interleave: the lookup, the call of the
\* function, the store.

RaceSources == {New("Source", a).obj : a \in EqArgs} \ {NoObj}

RaceDimensions ==
    {Dim("d1", Some("s1"), <<"a", "b">>), Dim("d1", Some("s1"), <<"SUM", "a">>),
     Dim("d1", None, <<"?">>)}

RaceMetrics ==
    {New("Metric", a).obj :
        a \in {m \in MetricArgs : m.per_row_select \in {<<"a", "b">>, <<"?">>, <<"b">>}}}

RaceConfigs ==
    {New("CpConfig", a).obj : a \in {c \in CpConfigArgs : Len(c.dimensions) = MaxDims}}

RaceObjects(cls) ==
    CASE cls = "Source" -> RaceSources
      [] cls = "Dimension" -> RaceDimensions
      [] cls = "Metric" -> RaceMetrics
      [] cls = "CpConfig" -> RaceConfigs

InitRace ==
    /\ \E cls \in {"Source", "Dimension", "Metric", "CpConfig"} :
         \E o \in RaceObjects(cls) : \E attr \in CachedAttrs(cls) :
            /\ obj = o
            /\ call = Call("race", cls, NoVal, attr)
            /\ ncompute = [a \in Attrs |-> IF a \in DOMAIN o.d THEN 1 ELSE 0]
    /\ other = NoObj
    /\ ret = Ok(NoVal)
    /\ nparse = ZeroCount
    /\ first = EmptyDict
    /\ naccess = 0
    /\ nget = ZeroCount
    /\ pc = [t \in Threads |-> "lookup"]
    /\ tval = [t \in Threads |-> NoVal]
    /\ tret = [t \in Threads |-> Ok(NoVal)]

\* val = cache.get(self.attrname, _NOT_FOUND); a hit is returned
Lookup(t) ==
    /\ pc[t] = "lookup"
    /\ LET c == cache_lookup(obj.d, call.attr)
       IN  IF c.hit
           THEN /\ pc' = [pc EXCEPT ![t] = "done"]
                /\ tret' = [tret EXCEPT ![t] = Ok(c.val)]
           ELSE /\ pc' = [pc EXCEPT ![t] = "call"]
                /\ tret' = tret
    /\ UNCHANGED <<obj, other, call, ret, ncompute, nparse, first, naccess, nget, tval>>

\* val = self.func(instance); an exception leaves __get__
CallFunc(t) ==
    /\ pc[t] = "call"
    /\ LET r == func(obj.cls, call.attr, obj.f)
       IN  /\ IF r.raised # NoError
              THEN /\ pc' = [pc EXCEPT ![t] = "done"]
                   /\ tret' = [tret EXCEPT ![t] = Raise(r.raised)]
                   /\ tval' = tval
              ELSE /\ pc' = [pc EXCEPT ![t] = "store"]
                   /\ tval' = [tval EXCEPT ![t] = r.val]
                   /\ tret' = tret
           /\ ncompute' = [ncompute EXCEPT ![call.attr] = @ + 1]
           /\ nparse' = [nparse EXCEPT ![call.attr] = @ + r.parses]
    /\ UNCHANGED <<obj, other, call, ret, first, naccess, nget>>

\* cache[self.attrname] = val; return val
Store(t) ==
    /\ pc[t] = "store"
    /\ obj' = [obj EXCEPT !.d = cache_store(@, call.attr, tval[t])]
    /\ pc' = [pc EXCEPT ![t] = "done"]
    /\ tret' = [tret EXCEPT ![t] = Ok(tval[t])]
    /\ UNCHANGED <<other, call, ret, ncompute, nparse, first, naccess, nget, tval>>

NextRace ==
    \/ \E t \in Threads : Lookup(t)
    \/ \E t \in Threads : CallFunc(t)
    \/ \E t \in Threads : Store(t)

SpecRace == InitRace /\ [][NextRace]_vars

---------------------------------------------------------------------------
\* Properties of Source construction.

\* a str option that is neither None nor ""
NonEmptyStr(o) == o # None /\ o # Some("")

\* a list option that is neither None nor []
NonEmptyList(o) == o # None /\ o # Some(<<>>)

\* how many of table, create_view, sync_from are non-empty
ModesSet(a) ==
    Cardinality({k \in {"table", "create_view"} : NonEmptyStr(a[k])})
        + (IF a.sync_from # None THEN 1 ELSE 0)

\* no cp_user_id, no cp_date, no join_using, no group_by
NoKeys(a) ==
    /\ ~NonEmptyStr(a.cp_user_id)
    /\ ~NonEmptyStr(a.cp_date)
    /\ ~NonEmptyList(a.join_using)
    /\ ~NonEmptyList(a.group_by)

SourceConstructed == call.op = "construct" /\ call.cls = "Source"

\* C1: constructing a Source succeeds only with exactly one of table,
\* create_view, sync_from non-empty; with zero, two or three set it raises the
\* mode error and leaves no instance, also when the keys are missing too.
C1_ExactlyOneMode ==
    SourceConstructed =>
        /\ ModesSet(call.args) # 1 => ret.raised = ModeError /\ obj = NoObj
        /\ ret.raised = NoError => ModesSet(call.args) = 1 /\ obj # NoObj
        /\ obj # NoObj => ret.raised = NoError

\* a Source with two modes and no key: the mode error is the one raised
C1_Witness ==
    /\ SourceConstructed
    /\ ModesSet(call.args) = 2
    /\ NoKeys(call.args)
    /\ ret.raised = ModeError
    /\ obj = NoObj

\* C2: every constructed Source has a non-empty join_using_columns; a Source
\* with a valid mode and no cp_user_id, cp_date, join_using or group_by is
\* not constructed.
C2_Joinable ==
    /\ obj.cls = "Source" =>
          /\ Len(cached_property_get("Source", "join_using_columns", obj.f, obj.d).val) > 0
          /\ "join_using_columns" \in DOMAIN obj.d => Len(obj.d["join_using_columns"]) > 0
    /\ (call.op = "get" /\ call.cls = "Source" /\ call.attr = "join_using_columns") =>
          ret.raised = NoError /\ Len(ret.val) > 0
    /\ (SourceConstructed /\ ModesSet(call.args) = 1 /\ NoKeys(call.args)) =>
          ret.raised = JoinError /\ obj = NoObj

\* join_using_columns read from a Source that has only cp_date
C2_Witness ==
    /\ call.op = "get" /\ call.cls = "Source" /\ call.attr = "join_using_columns"
    /\ ~NonEmptyStr(obj.f.cp_user_id) /\ NonEmptyStr(obj.f.cp_date)
    /\ ~NonEmptyList(obj.f.join_using) /\ ~NonEmptyList(obj.f.group_by)
    /\ ret.val = <<"cp_date">>

GroupByRead == call.op = "get" /\ call.cls = "Source" /\ call.attr = "group_by_columns"

\* C3 as stated: group_by_columns is the explicit group_by list if there is
\* one; else [u, d], the configured values of cp_user_id and cp_date, when
\* both are set; else the empty list.
C3_KeyValues ==
    GroupByRead =>
        ret = Ok(IF obj.f.group_by # None THEN obj.f.group_by[1]
                 ELSE IF NonEmptyStr(obj.f.cp_user_id) /\ NonEmptyStr(obj.f.cp_date)
                      THEN <<obj.f.cp_user_id[1], obj.f.cp_date[1]>>
                      ELSE <<>>)

\* C3 amended: group_by_columns is the explicit group_by list if there is one;
\* else the fixed list ["cp_user_id", "cp_date"] (the two column names, not
\* the configured values) when both keys are set; else the empty list.
C3_KeyNames ==
    GroupByRead =>
        ret = Ok(IF obj.f.group_by # None THEN obj.f.group_by[1]
                 ELSE IF NonEmptyStr(obj.f.cp_user_id) /\ NonEmptyStr(obj.f.cp_date)
                      THEN <<"cp_user_id", "cp_date">>
                      ELSE <<>>)

\* group_by_columns read from a Source with both keys and no group_by
C3_Witness ==
    /\ GroupByRead
    /\ obj.f.group_by = None
    /\ obj.f.cp_user_id = Some("uid") /\ obj.f.cp_date = Some("dt")
    /\ ret.val = <<"cp_user_id", "cp_date">>

---------------------------------------------------------------------------
\* Properties of the other entities.

\* C4: a Segmentation with a value_formatter and a type other than CONTINUOUS
\* is not constructed, whatever humanize is; with type CONTINUOUS it is.
C4_FormatterContinuousOnly ==
    (call.op = "construct" /\ call.cls = "Segmentation"
        /\ call.args.value_formatter # None) =>
        /\ call.args.type # "CONTINUOUS" => ret.raised # NoError /\ obj = NoObj
        /\ call.args.type = "CONTINUOUS" => ret.raised = NoError /\ obj # NoObj

\* C7: an assignment to a declared field of a constructed instance of any
\* entity type is rejected and leaves the fields as they were.
C7_Immutable ==
    [][call'.op = "setattr" =>
          ret'.raised = FrozenInstanceError /\ obj'.f = obj.f]_vars


\* a dimension that names a source (its source is neither None nor "")
HasSource(dim) == NonEmptyStr(dim.f.source)

DimsPerSourceRead ==
    /\ call.op = "get" /\ call.cls = "CpConfig"
    /\ call.attr = "dimensions_per_source_name_map"

C6_ComputedOnce ==
    \A a \in DOMAIN first :
        /\ ncompute[a] = first[a].ncompute
        /\ nparse[a] = first[a].nparse
        /\ (call.op = "get" /\ call.attr = a) => ret = Ok(first[a].val)
        /\ a \in DOMAIN obj.d /\ obj.d[a] = first[a].val

\* the second access of Metric.required_column_names: two parses so far
C6_Witness ==
    /\ obj.cls = "Metric"
    /\ call.op = "get" /\ call.attr = "required_column_names"
    /\ nget["required_column_names"] = 2
    /\ "required_column_names" \in DOMAIN first
    /\ nparse["required_column_names"] = 2
    /\ ret.val = {"a", "b"}

\* a SQL text that is not an expression
Unparsable(text) == "?" \in ToSet(text)

\* C9: an unparsable SQL text never makes the construction of a Dimension, a
\* Metric or a CpConfig fail, and nothing is parsed then; the syntax error is
\* raised by the accesses of the derived facts that parse, from the first one
\* on, and by them only for a text that does not parse.
C9_LazySyntaxError ==
    /\ (call.op = "construct" /\ call.cls \in {"Dimension", "Metric", "CpConfig"}) =>
          ret.raised = NoError /\ obj # NoObj /\ nparse = ZeroCount
    /\ (call.op = "get" /\ call.cls = "Dimension") =>
          (ret.raised = ParseError <=> Unparsable(obj.f.select))
    /\ (call.op = "get" /\ call.cls = "Metric") =>
          (ret.raised = ParseError <=>
              Unparsable(obj.f.per_row_select) \/ Unparsable(obj.f.aggregate_select))
    /\ (call.op = "get" /\ call.cls \in {"Dimension", "Metric"}) =>
          ret.raised \in {NoError, ParseError}

\* the first access of required_column_names of a Dimension whose select does
\* not parse raises
C9_Witness ==
    /\ call.op = "get" /\ call.cls = "Dimension"
    /\ call.attr = "required_column_names"
    /\ nget["required_column_names"] = 1 /\ naccess = 1
    /\ Unparsable(obj.f.select)
    /\ ret.raised = ParseError

---------------------------------------------------------------------------
\* Properties of two Source instances.

BothSources == obj.cls = "Source" /\ other.cls = "Source"

\* C8 as stated: two Sources with the same name compare equal and hash equal
\* whatever their other fields; two Sources with different names compare
\* unequal.
C8_EqualByName ==
    BothSources =>
        /\ obj.f.name = other.f.name =>
              Source_eq(obj, other) /\ Source_hash(obj) = Source_hash(other)
        /\ obj.f.name # other.f.name => ~Source_eq(obj, other)

\* C8 amended: two Sources with the same name hash equal; they compare equal
\* exactly when all their declared fields are equal, so two Sources with
\* different names compare unequal and two with the same name and another
\* differing field compare unequal too.
C8_HashByName ==
    BothSources =>
        /\ obj.f.name = other.f.name => Source_hash(obj) = Source_hash(other)
        /\ Source_eq(obj, other) <=> \A k \in DOMAIN obj.f : obj.f[k] = other.f[k]
        /\ obj.f.name # other.f.name => ~Source_eq(obj, other)

\* same name, different table: equal hashes, unequal instances
C8_Witness ==
    /\ BothSources
    /\ obj.f.name = other.f.name
    /\ obj.f.table # other.f.table
    /\ Source_hash(obj) = Source_hash(other)
    /\ ~Source_eq(obj, other)

---------------------------------------------------------------------------
\* Properties of concurrent accesses.

\* what one access by a single thread returns for the raced property
Sequential ==
    LET r == func(obj.cls, call.attr, obj.f)
    IN  IF r.raised # NoError THEN Raise(r.raised) ELSE Ok(r.val)

\* C10: under every interleaving each thread gets what a single-threaded
\* access returns, and what the cache holds is that value; a race repeats the
\* computation at most.
C10_RaceSafe ==
    /\ \A t \in Threads : pc[t] = "done" => tret[t] = Sequential
    /\ call.attr \in DOMAIN obj.d => obj.d[call.attr] = Sequential.val
    /\ (\E t \in Threads : pc[t] = "done" /\ tret[t].raised = NoError) =>
          call.attr \in DOMAIN obj.d
    /\ DOMAIN obj.d \subseteq CachedAttrs(obj.cls)

\* a stampede: every thread ran the function of source_map and is done
C10_Witness ==
    /\ obj.cls = "CpConfig" /\ call.attr = "source_map"
    /\ ncompute["source_map"] = NThreads
    /\ \A t \in Threads : pc[t] = "done"
    /\ DOMAIN obj.d["source_map"] = {"s1"}

=============================================================================
